---- MODULE Spec2Model ----
(***************************************************************************)
(* Model of server.js: a flat-file store of product records                *)
(* (products.json), the uploads directory written by the multer            *)
(* middleware, and the five Express routes over them.                      *)
(*                                                                         *)
(* A JavaScript string is a sequence of tokens, so that concatenation,     *)
(* startsWith, path.join and path.extname are computed and not looked up.  *)
(* A JavaScript value is a record [t |-> type, v |-> payload].             *)
(***************************************************************************)
EXTENDS Integers, Sequences, FiniteSets, Bags, TLC

\* ------------------------------------------------------------- bounds
\* Uploads that may be between the multer middleware and their handler.
MaxInFlight == 2
\* The wall clock read by new Date() takes the values 0..MaxClock.
MaxClock == 1

\* ------------------------------------------------------ JavaScript values
Undefined == [t |-> "undefined", v |-> <<>>]
Null == [t |-> "null", v |-> <<>>]
Str(s) == [t |-> "string", v |-> s]
Num(s) == [t |-> "number", v |-> <<s>>]
NaN == Num("NaN")
False == [t |-> "boolean", v |-> <<"false">>]
True == [t |-> "boolean", v |-> <<"true">>]
Arr(s) == [t |-> "array", v |-> s]

\* ToBoolean, as applied by ||, ?: and if.
Truthy(x) ==
    CASE x.t = "undefined" -> FALSE
      [] x.t = "null" -> FALSE
      [] x.t = "string" -> x.v # <<>>
      [] x.t = "number" -> x.v \notin {<<"0">>, <<"NaN">>}
      [] x.t = "boolean" -> x.v = <<"true">>
      [] OTHER -> TRUE

\* a || b
Or(a, b) == IF Truthy(a) THEN a ELSE b

\* The decimal tokens Number.parseFloat recognises at the head of a string.
NumberTokens == {"0", "2.5", "7"}

\* Number.parseFloat(x): the longest numeric prefix of String(x), else NaN.
ParseFloat(x) ==
    CASE x.t = "number" -> x
      [] x.t = "string" /\ x.v # <<>> /\ Head(x.v) \in NumberTokens -> Num(Head(x.v))
      [] OTHER -> NaN

\* String.prototype.startsWith
StartsWith(s, p) == Len(s) >= Len(p) /\ SubSeq(s, 1, Len(p)) = p

\* Number to string inside a template literal.
Digits == <<"0", "1", "2", "3", "4", "5", "6", "7", "8", "9">>
NumberToString(n) == IF n < 10 THEN <<Digits[n + 1]>> ELSE <<Digits[(n \div 10) + 1], Digits[(n % 10) + 1]>>

\* JSON.stringify followed by JSON.parse of one value: NaN is written as
\* null; a property holding undefined is dropped and reads back undefined.
RECURSIVE JSONValue(_)
JSONValue(x) ==
    CASE x.t = "number" /\ x.v = <<"NaN">> -> Null
      [] x.t = "array" -> Arr([i \in 1..Len(x.v) |-> [f \in DOMAIN x.v[i] |-> JSONValue(x.v[i][f])]])
      [] OTHER -> x

\* JSON round trip of one product record.
JSONRecord(p) == [f \in DOMAIN p |-> JSONValue(p[f])]

\* JSON round trip of the whole collection.
JSONProducts(products) == [i \in 1..Len(products) |-> JSONRecord(products[i])]

\* ------------------------------------------------------------- paths
\* path.join(__dirname, p) normalised, relative to __dirname: the sequence
\* of path segments, each a sequence of tokens; "/" separates, ".." pops.
RECURSIVE Segments(_, _, _)
Segments(s, done, cur) ==
    IF s = <<>> THEN (IF cur = <<>> THEN done ELSE Append(done, cur))
    ELSE IF Head(s) = "/" THEN Segments(Tail(s), IF cur = <<>> THEN done ELSE Append(done, cur), <<>>)
    ELSE Segments(Tail(s), done, Append(cur, Head(s)))

RECURSIVE Normalize(_, _)
Normalize(segs, out) ==
    IF segs = <<>> THEN out
    ELSE IF Head(segs) = <<"..">> THEN Normalize(Tail(segs), IF out = <<>> THEN out ELSE SubSeq(out, 1, Len(out) - 1))
    ELSE IF Head(segs) = <<".">> THEN Normalize(Tail(segs), out)
    ELSE Normalize(Tail(segs), Append(out, Head(segs)))

PathJoin(p) == Normalize(Segments(p, <<>>, <<>>), <<>>)

\* path.extname: from the last "." of the name; tokens keep the dot.
ExtTokens == {".png"}
ExtName(name) == IF name # <<>> /\ name[Len(name)] \in ExtTokens THEN <<name[Len(name)]>> ELSE <<>>

UploadsPrefix == <<"/", "uploads", "/">>
DefaultImage ==
    <<"https:", "/", "/", "images.unsplash.com", "/", "photo-1558618666-fcd25c85cd64",
      "?w=200&h=200&fit=crop&crop=center">>

\* ----------------------------------------------------------- the state
VARIABLES
    productsFile,   \* products.json: [valid, data]; data is the parsed array
    files,          \* the other files under __dirname: path -> content
    inflight,       \* bag of req.file of requests between multer and handler
    clock,          \* the wall clock read by new Date()
    res             \* the last response sent: [op, status, body]

vars == <<productsFile, files, inflight, clock, res>>

ServerJs == <<<<"server", ".js">>>>
UploadPath(name) == <<<<"uploads">>, name>>

\* What the medium does to the file operations of one request: nothing,
\* reads throw, writes throw before the file is opened, or writes throw
\* after the open (flag "w") has truncated the file.
IOs == {"ok", "readFault", "writeFault", "writeTorn"}

Torn == [valid |-> FALSE, data |-> <<>>]

\* ------------------------------------------------------ helper functions
\* Mutant of readProducts: a failed read answers with the data last parsed.
readProductsKeepsData(io) == productsFile.data

\* readProducts(): a read or parse error is logged and yields [].
readProducts(io) == IF io = "readFault" \/ ~productsFile.valid THEN <<>> ELSE productsFile.data

\* fs.writeFileSync(productsFile, JSON.stringify(products)) inside
\* writeProducts: what products.json holds afterwards.
writeFileSync(io, products) ==
    CASE io = "writeFault" -> productsFile
      [] io = "writeTorn" -> Torn
      [] OTHER -> [valid |-> TRUE, data |-> JSONProducts(products)]

\* writeProducts(products): the value returned, false when the write threw.
writeProducts(io) == io \notin {"writeFault", "writeTorn"}

\* req.body.<f>
Field(body, f) == IF f \in DOMAIN body THEN body[f] ELSE Undefined

\* Mutant of FindIndex: a key no record has finds the first record.
FindIndexOrFirst(products, key) ==
    IF \E i \in 1..Len(products) : products[i].trackingNumber = key
    THEN CHOOSE i \in 1..Len(products) : products[i].trackingNumber = key
    ELSE IF Len(products) > 0 THEN 1 ELSE 0

\* products.findIndex(p => p.trackingNumber === key); 0 stands for -1.
FindIndex(products, key) ==
    IF \E i \in 1..Len(products) : products[i].trackingNumber = key
    THEN CHOOSE i \in 1..Len(products) :
             /\ products[i].trackingNumber = key
             /\ \A j \in 1..(i - 1) : products[j].trackingNumber # key
    ELSE 0

\* Mutants of FindProduct: the scan stops at the first record; no scan.
FindProductFirstOnly(products, key) == Len(products) > 0 /\ products[1].trackingNumber = key
FindProductNever(products, key) == FALSE

\* products.find(p => p.trackingNumber === key), as a condition
FindProduct(products, key) == FindIndex(products, key) # 0

\* Mutant of Splice: the last record is moved into the place of the one
\* removed.
SpliceMovesLast(products, index) ==
    IF index = Len(products) THEN SubSeq(products, 1, Len(products) - 1)
    ELSE SubSeq([products EXCEPT ![index] = products[Len(products)]], 1, Len(products) - 1)

\* products.splice(index, 1): the array left behind.
Splice(products, index) == SubSeq(products, 1, index - 1) \o SubSeq(products, index + 1, Len(products))

\* res.json / res.status(..).json
Reply(op, status, body) == [op |-> op, status |-> status, body |-> body]
Object(p) == [t |-> "object", v |-> JSONRecord(p)]
Error(msg) == [t |-> "error", v |-> <<msg>>]
Message(msg) == [t |-> "message", v |-> <<msg>>]

Init ==
    /\ productsFile = [valid |-> TRUE, data |-> <<>>]
    /\ files = (ServerJs :> "source")
    /\ inflight = EmptyBag
    /\ clock = 0
    /\ res = Reply("none", 0, Undefined)

\* ------------------------------------------------------------- routes
\* The response of GET /api/products
GetProductsReply(io) == Reply("GET_ALL", 200, Arr(JSONProducts(readProducts(io))))

\* Mutant of GetProducts: the read hands the records over and leaves the
\* file empty.
GetProductsDrains(io) ==
    /\ res' = GetProductsReply(io)
    /\ productsFile' = [valid |-> TRUE, data |-> <<>>]
    /\ UNCHANGED <<files, inflight, clock>>

\* GET /api/products
GetProducts(io) ==
    /\ res' = GetProductsReply(io)
    /\ UNCHANGED <<productsFile, files, inflight, clock>>

\* The response of GET /api/products/:trackingNumber
GetProductReply(key, io) ==
    LET products == readProducts(io)
        index == FindIndex(products, key)
    IN  IF index # 0
        THEN Reply("GET", 200, Object(products[index]))
        ELSE Reply("GET", 404, Error("Product not found"))

\* GET /api/products/:trackingNumber
GetProduct(key, io) ==
    /\ res' = GetProductReply(key, io)
    /\ UNCHANGED <<productsFile, files, inflight, clock>>

\* upload.single("packageImage"): the fileFilter, then diskStorage's filename
\* and the write of the file under uploads/. A rejected file ends the request
\* with the error; an accepted one leaves req.file for the route's handler.
MimePrefix == <<"image/">>

\* Mutant of FileName: the number comes from a counter that also counts the
\* uploads in flight.
FileNameCounted(originalname, io) ==
    <<"image">> \o NumberToString(Len(readProducts(io)) + BagCardinality(inflight) + 1)
        \o ExtName(originalname)

\* storage.filename
FileName(originalname, io) ==
    LET products == readProducts(io)
        imageNumber == Len(products) + 1
        extension == ExtName(originalname)
    IN  <<"image">> \o NumberToString(imageNumber) \o extension

\* Mutant of Multer: the file is stored before the filter is asked.
MulterStoresFirst(mimetype, originalname, content, io) ==
    /\ BagCardinality(inflight) < MaxInFlight
    /\ files' = (UploadPath(FileName(originalname, io)) :> content) @@ files
    /\ IF StartsWith(mimetype, MimePrefix)
       THEN /\ inflight' = inflight (+) SetToBag({FileName(originalname, io)})
            /\ UNCHANGED res
       ELSE /\ res' = Reply("UPLOAD", 500, Error("Only image files are allowed!"))
            /\ UNCHANGED inflight
    /\ UNCHANGED <<productsFile, clock>>

Multer(mimetype, originalname, content, io) ==
    /\ BagCardinality(inflight) < MaxInFlight
    /\ IF StartsWith(mimetype, MimePrefix)
       THEN LET filename == FileName(originalname, io)
            IN  /\ files' = (UploadPath(filename) :> content) @@ files
                /\ inflight' = inflight (+) SetToBag({filename})
                /\ UNCHANGED res
       ELSE /\ res' = Reply("UPLOAD", 500, Error("Only image files are allowed!"))
            /\ UNCHANGED <<files, inflight>>
    /\ UNCHANGED <<productsFile, clock>>

\* req.file of a request: none, or one an upload left in flight.
NoFile == Undefined
ReqFile(filename) == [t |-> "file", v |-> filename]
HasFile(file) == file.t = "file"
Arrived(file) == HasFile(file) => BagIn(file.v, inflight)
Leave(file) == IF HasFile(file) THEN inflight (-) SetToBag({file.v}) ELSE inflight

\* new Date().toISOString()
ISOString(t) == Str(<<"T">> \o NumberToString(t))

\* The record POST builds from the request; random is what
\* Math.random().toString().substr(2, 10) yields.
ProductData(body, file, random) ==
    [trackingNumber |-> Or(Field(body, "trackingNumber"), Str(random)),
     recipientName |-> Field(body, "recipientName"),
     recipientAddress |-> Field(body, "recipientAddress"),
     senderName |-> Field(body, "senderName"),
     weight |-> ParseFloat(Field(body, "weight")),
     serviceType |-> Field(body, "serviceType"),
     status |-> Field(body, "status"),
     estimatedDelivery |-> Field(body, "estimatedDelivery"),
     packageImage |-> IF HasFile(file) THEN Str(UploadsPrefix \o file.v)
                      ELSE Or(Field(body, "imageUrl"), Str(DefaultImage)),
     events |-> Arr(<<[description |-> Str(<<"Package created">>),
                       timestamp |-> ISOString(clock),
                       location |-> Str(<<"Origin facility">>),
                       completed |-> True]>>),
     createdAt |-> ISOString(clock),
     isGlobal |-> False]

\* Mutant of PostProducts: the handler appends to the collection that
\* storage.filename loaded when the upload began (known here when that
\* collection was empty: the upload was named image1) and not to a fresh read.
PostProductsStale(file, body, random, io) ==
    /\ Arrived(file)
    /\ LET products == IF HasFile(file) /\ StartsWith(file.v, <<"image", "1">>)
                       THEN <<>> ELSE readProducts(io)
           productData == ProductData(body, file, random)
       IN  IF FindProduct(products, productData.trackingNumber)
           THEN /\ res' = Reply("POST", 400, Error("Tracking number already exists"))
                /\ UNCHANGED productsFile
           ELSE /\ res' = IF writeProducts(io) THEN Reply("POST", 201, Object(productData))
                          ELSE Reply("POST", 500, Error("Failed to save product"))
                /\ productsFile' = writeFileSync(io, Append(products, productData))
    /\ inflight' = Leave(file)
    /\ UNCHANGED <<files, clock>>

\* POST /api/products
PostProducts(file, body, random, io) ==
    /\ Arrived(file)
    /\ LET products == readProducts(io)
           productData == ProductData(body, file, random)
       IN  IF FindProduct(products, productData.trackingNumber)
           THEN /\ res' = Reply("POST", 400, Error("Tracking number already exists"))
                /\ UNCHANGED productsFile
           ELSE /\ res' = IF writeProducts(io) THEN Reply("POST", 201, Object(productData))
                          ELSE Reply("POST", 500, Error("Failed to save product"))
                /\ productsFile' = writeFileSync(io, Append(products, productData))
    /\ inflight' = Leave(file)
    /\ UNCHANGED <<files, clock>>

\* Mutants of UpdatedProduct: the body replaces the updatable fields whether
\* supplied or not; the body is spread over the stored record.
UpdatedProductReplaces(prior, body, file) ==
    [f \in DOMAIN prior |->
        CASE f = "weight" -> ParseFloat(Field(body, "weight"))
          [] f = "packageImage" -> IF HasFile(file) THEN Str(UploadsPrefix \o file.v)
                                   ELSE Or(Field(body, "imageUrl"), prior.packageImage)
          [] f \in {"recipientName", "recipientAddress", "senderName", "serviceType", "status",
                    "estimatedDelivery"} -> Field(body, f)
          [] OTHER -> prior[f]]
UpdatedProductSpreadsBody(prior, body, file) ==
    [f \in DOMAIN prior |-> IF f \in DOMAIN body THEN body[f] ELSE prior[f]]

\* Mutant of UpdatedProduct: the body's events and isGlobal are merged too.
UpdatedProductTakesFlags(prior, body, file) ==
    [prior EXCEPT
        !.events = Or(Field(body, "events"), prior.events),
        !.isGlobal = Or(Field(body, "isGlobal"), prior.isGlobal)]

\* The merged record PUT builds from the stored one and the request.
UpdatedProduct(prior, body, file) ==
    [prior EXCEPT
        !.recipientName = Or(Field(body, "recipientName"), prior.recipientName),
        !.recipientAddress = Or(Field(body, "recipientAddress"), prior.recipientAddress),
        !.senderName = Or(Field(body, "senderName"), prior.senderName),
        !.weight = IF Truthy(Field(body, "weight")) THEN ParseFloat(Field(body, "weight")) ELSE prior.weight,
        !.serviceType = Or(Field(body, "serviceType"), prior.serviceType),
        !.status = Or(Field(body, "status"), prior.status),
        !.estimatedDelivery = Or(Field(body, "estimatedDelivery"), prior.estimatedDelivery),
        !.packageImage = IF HasFile(file) THEN Str(UploadsPrefix \o file.v)
                         ELSE Or(Field(body, "imageUrl"), prior.packageImage)]

\* PUT /api/products/:trackingNumber
PutProducts(key, file, body, io) ==
    /\ Arrived(file)
    /\ LET products == readProducts(io)
           index == FindIndex(products, key)
       IN  IF index = 0
           THEN /\ res' = Reply("PUT", 404, Error("Product not found"))
                /\ UNCHANGED productsFile
           ELSE LET updatedProduct == UpdatedProduct(products[index], body, file)
                IN  /\ res' = IF writeProducts(io) THEN Reply("PUT", 200, Object(updatedProduct))
                              ELSE Reply("PUT", 500, Error("Failed to update product"))
                    /\ productsFile' = writeFileSync(io, [products EXCEPT ![index] = updatedProduct])
    /\ inflight' = Leave(file)
    /\ UNCHANGED <<files, clock>>

\* The file DELETE unlinks for a removed record: the joined path, when the
\* reference is truthy, starts with "/uploads/" and the path exists.
ImagePath(packageImage) == PathJoin(packageImage.v)

\* Mutant of Unlinks: the record goes, its image stays.
UnlinksNothing(packageImage) == FALSE

Unlinks(packageImage) ==
    /\ Truthy(packageImage)
    /\ StartsWith(packageImage.v, UploadsPrefix)
    /\ ImagePath(packageImage) \in DOMAIN files

\* fs.unlinkSync(path)
Unlink(path) == [q \in DOMAIN files \ {path} |-> files[q]]

\* DELETE /api/products/:trackingNumber
DeleteProduct(key, io) ==
    /\ LET products == readProducts(io)
           index == FindIndex(products, key)
       IN  IF index = 0
           THEN /\ res' = Reply("DELETE", 404, Error("Product not found"))
                /\ UNCHANGED <<productsFile, files>>
           ELSE LET deletedProduct == products[index]
                IN  /\ res' = IF writeProducts(io) THEN Reply("DELETE", 200, Message("Product deleted successfully"))
                              ELSE Reply("DELETE", 500, Error("Failed to delete product"))
                    /\ files' = IF Unlinks(deletedProduct.packageImage)
                                THEN Unlink(ImagePath(deletedProduct.packageImage))
                                ELSE files
                    /\ productsFile' = writeFileSync(io, Splice(products, index))
    /\ UNCHANGED <<inflight, clock>>

\* ------------------------------------------------------ the environment
\* Time passes.
Tick ==
    /\ clock < MaxClock
    /\ clock' = clock + 1
    /\ UNCHANGED <<productsFile, files, inflight, res>>

\* ------------------------------------------------------------- inputs
TN1 == Str(<<"TN1">>)
TN2 == Str(<<"4821">>)
Keys == {TN1, TN2}
RandomTokens == {<<"4821">>}

ExternalUrl == Str(<<"https:", "/", "/", "cdn.example", "/", "box", ".png">>)
TraversalRef == Str(<<"/", "uploads", "/", "..", "/", "server", ".js">>)

MimeTypes == {<<"image/", "png">>, <<"text/", "plain">>}
OriginalNames == {<<"photo", ".png">>}
Contents == {"blobA"}

FullBody ==
    [recipientName |-> Str(<<"A">>), recipientAddress |-> Str(<<"addr">>),
     senderName |-> Str(<<"S">>), weight |-> Str(<<"2.5">>),
     serviceType |-> Str(<<"standard">>), status |-> Str(<<"created">>),
     estimatedDelivery |-> Str(<<"2025-01-01">>)]

With(body, f, x) == (f :> x) @@ body

\* What the medium may do to a request that only reads.
ReadIOs == {"ok", "readFault"}

\* What the medium may do to the write of a request whose read went well.
WriteIOs == {"ok", "writeFault", "writeTorn"}

\* req.file of the request being handled: none, or one left in flight.
Files == {NoFile} \cup {ReqFile(n) : n \in BagToSet(inflight)}

\* --- the store under concurrent uploads and a faulty medium
PostBodies == {FullBody, With(FullBody, "trackingNumber", TN1)}

\* An update that names another key, another creation time, no events, and
\* a global record.
PutBodies ==
    {[trackingNumber |-> TN2, createdAt |-> Str(<<"1999">>), events |-> Arr(<<>>), isGlobal |-> True]}

Next ==
    \/ \E m \in MimeTypes, o \in OriginalNames, c \in Contents, io \in ReadIOs : Multer(m, o, c, io)
    \/ \E file \in Files, body \in PostBodies, random \in RandomTokens, io \in IOs :
           PostProducts(file, body, random, io)
    \/ \E key \in Keys, file \in Files, body \in PutBodies : PutProducts(key, file, body, "ok")
    \/ \E key \in Keys, io \in WriteIOs : DeleteProduct(key, io)

Spec == Init /\ [][Next]_vars

\* --- reads of a store on a faulty medium, requests without uploads
NextReads ==
    \/ \E io \in ReadIOs : GetProducts(io)
    \/ \E key \in Keys, io \in ReadIOs : GetProduct(key, io)
    \/ \E body \in PostBodies, random \in RandomTokens, io \in IOs : PostProducts(NoFile, body, random, io)
    \/ \E key \in Keys, body \in PutBodies, io \in IOs : PutProducts(key, NoFile, body, io)
    \/ \E key \in Keys, io \in IOs : DeleteProduct(key, io)
    \/ Tick

SpecReads == Init /\ [][NextReads]_vars

\* --- the field merge of PUT: requests without uploads on a healthy medium,
\* every update a single field addressed to TN1, the other record there to
\* be left alone
UpdatableFields ==
    {"recipientName", "recipientAddress", "senderName", "weight", "serviceType", "status",
     "estimatedDelivery"}

NewValue(f) ==
    CASE f = "weight" -> Str(<<"7", "kg">>)
      [] f = "status" -> Str(<<"delivered">>)
      [] OTHER -> Str(<<"new">>)

MergeBodies ==
    {(f :> NewValue(f)) : f \in UpdatableFields}
        \cup {[status |-> Str(<<>>)], [weight |-> Str(<<>>)], [weight |-> Str(<<"abc">>)],
              [imageUrl |-> ExternalUrl], [trackingNumber |-> TN2], [createdAt |-> Str(<<"1999">>)]}

NextMerge ==
    \/ \E body \in PostBodies, random \in RandomTokens : PostProducts(NoFile, body, random, "ok")
    \/ \E body \in MergeBodies : PutProducts(TN1, NoFile, body, "ok")

SpecMerge == Init /\ [][NextMerge]_vars

\* --- the asset references of DELETE: caller-supplied image references
AssetBodies ==
    UNION {{b, With(b, "imageUrl", ExternalUrl), With(b, "imageUrl", TraversalRef)} : b \in PostBodies}

NextAssets ==
    \/ \E m \in MimeTypes, o \in OriginalNames, c \in Contents : Multer(m, o, c, "ok")
    \/ \E file \in Files, body \in AssetBodies, random \in RandomTokens :
           PostProducts(file, body, random, "ok")
    \/ \E key \in Keys : DeleteProduct(key, "ok")

SpecAssets == Init /\ [][NextAssets]_vars

\* ------------------------------------------------------------ properties
\* The collection a reader of products.json gets from a healthy medium.
Persisted == IF productsFile.valid THEN productsFile.data ELSE <<>>

\* The collection as the store reads it under io.
Seen(io) == IF io = "readFault" THEN <<>> ELSE Persisted

HasKey(products, key) == \E i \in 1..Len(products) : products[i].trackingNumber = key
Positions(products, key) == {i \in 1..Len(products) : products[i].trackingNumber = key}
RecordOf(products, key) == products[CHOOSE i \in Positions(products, key) : TRUE]
Image(n) == Str(UploadsPrefix \o <<"image", n, ".png">>)

\* C1: in every reachable state no two records of the persisted collection
\* share a trackingNumber.
C1_UniqueTrackingNumbers ==
    \A i, j \in 1..Len(Persisted) :
        Persisted[i].trackingNumber = Persisted[j].trackingNumber => i = j

C1_Witness ==
    /\ Len(Persisted) = 2
    /\ res.op = "POST" /\ res.status = 400
    /\ inflight # EmptyBag

\* C2: an insert whose key is in the store (as the store reads it) answers
\* 400 Conflict and leaves products.json exactly as it was, whatever the
\* medium would do to a write; the key is then held by exactly one record.
C2_ConflictLeavesStore ==
    [][res'.op = "POST" =>
       \A file \in Files, body \in PostBodies, random \in RandomTokens, io \in IOs :
          (/\ HasKey(Seen(io), Or(Field(body, "trackingNumber"), Str(random)))
           /\ PostProducts(file, body, random, io))
          => /\ res' = Reply("POST", 400, Error("Tracking number already exists"))
             /\ productsFile' = productsFile
             /\ Cardinality(Positions(Persisted', Or(Field(body, "trackingNumber"), Str(random)))) = 1]_vars

C2_Witness ==
    /\ res.op = "POST" /\ res.status = 400
    /\ Len(Persisted) = 1
    /\ Persisted[1].trackingNumber = TN1

\* C3: no lost updates. With requests in flight in any interleaving, a
\* successful insert leaves every persisted record in place and adds its
\* own after them, a successful update changes no record but its own, and a
\* successful delete removes no record but its own.
C3_NoLostUpdate ==
    [][/\ (res'.op = "POST" /\ res'.status = 201)
          => \A file \in Files, body \in PostBodies, random \in RandomTokens :
                (inflight' = Leave(file) /\ PostProducts(file, body, random, "ok"))
                => Persisted' = Append(Persisted, res'.body.v)
       /\ (res'.op = "PUT" /\ res'.status = 200)
          => \A key \in Keys, file \in Files, body \in PutBodies :
                (inflight' = Leave(file) /\ PutProducts(key, file, body, "ok"))
                => /\ Len(Persisted') = Len(Persisted)
                   /\ \A i \in 1..Len(Persisted) :
                        Persisted[i].trackingNumber # key => Persisted'[i] = Persisted[i]
       /\ (res'.op = "DELETE" /\ res'.status = 200)
          => \A key \in Keys :
                DeleteProduct(key, "ok")
                => \A i \in 1..Len(Persisted) :
                        Persisted[i].trackingNumber # key
                        => \E j \in 1..Len(Persisted') : Persisted'[j] = Persisted[i]]_vars

\* Two inserts whose uploads were both named before either committed (both
\* got image1) have both succeeded, and both records are persisted.
C3_Witness ==
    /\ Len(Persisted) = 2
    /\ Persisted[1].packageImage = Image("1")
    /\ Persisted[2].packageImage = Image("1")
    /\ res.op = "POST" /\ res.status = 201

\* The record field a body field is merged into.
Target(f) == IF f = "imageUrl" THEN "packageImage" ELSE f

\* C4: a successful update supplying a single field changes at most that
\* field of the record with that key; its other fields and every other
\* record are as before.
C4_MergeTouchesOneField ==
    [][(res'.op = "PUT" /\ res'.status = 200) =>
       \A body \in MergeBodies :
          PutProducts(TN1, NoFile, body, "ok")
          => /\ Len(Persisted') = Len(Persisted)
             /\ \A i \in 1..Len(Persisted) :
                  IF Persisted[i].trackingNumber = TN1
                  THEN \A f \in DOMAIN Persisted[i] :
                          f \notin {Target(g) : g \in DOMAIN body}
                          => Persisted'[i][f] = Persisted[i][f]
                  ELSE Persisted'[i] = Persisted[i]]_vars

C4_Witness ==
    /\ Len(Persisted) = 2
    /\ res.op = "PUT" /\ res.status = 200
    /\ HasKey(Persisted, TN1)
    /\ RecordOf(Persisted, TN1).status = Str(<<"delivered">>)
    /\ RecordOf(Persisted, TN1).recipientName = Str(<<"A">>)
    /\ RecordOf(Persisted, TN1).weight = Num("2.5")

\* C5 (as claimed): on update every updatable field the request provides,
\* whatever its value, holds the provided value afterwards (weight: the
\* number parsed from it), and every omitted field holds the prior value.
C5_ProvidedFieldsOverwrite ==
    [][(res'.op = "PUT" /\ res'.status = 200) =>
       \A body \in MergeBodies :
          PutProducts(TN1, NoFile, body, "ok")
          => \A f \in UpdatableFields :
                RecordOf(Persisted', TN1)[f] =
                    IF f \in DOMAIN body
                    THEN (IF f = "weight" THEN JSONValue(ParseFloat(body[f])) ELSE body[f])
                    ELSE RecordOf(Persisted, TN1)[f]]_vars

\* C6 (as claimed): after a delete that found the key has completed, GET of
\* the key answers 404 and the managed asset the record referenced is gone.
C6_DeleteCompleteness ==
    [][res'.op = "DELETE" =>
       \A key \in Keys, io \in IOs :
          (HasKey(Seen(io), key) /\ DeleteProduct(key, io))
          => /\ GetProductReply(key, "ok")'.status = 404
             /\ StartsWith(RecordOf(Seen(io), key).packageImage.v, UploadsPrefix)
                => PathJoin(RecordOf(Seen(io), key).packageImage.v) \notin DOMAIN files']_vars

\* C6 (amended): after a delete that reported success, GET of the key
\* answers 404 and the managed asset the record referenced is gone.
C6_SuccessfulDeleteCompleteness ==
    [][(res'.op = "DELETE" /\ res'.status = 200) =>
       \A key \in Keys, io \in IOs :
          DeleteProduct(key, io)
          => /\ GetProductReply(key, "ok")'.status = 404
             /\ StartsWith(RecordOf(Seen(io), key).packageImage.v, UploadsPrefix)
                => PathJoin(RecordOf(Seen(io), key).packageImage.v) \notin DOMAIN files']_vars

\* A delete has succeeded and removed image1 from under a record that
\* shared it: the record left still refers to the file, which is gone.
C6_Witness ==
    /\ res.op = "DELETE" /\ res.status = 200
    /\ Len(Persisted) = 1
    /\ Persisted[1].packageImage = Image("1")
    /\ UploadPath(<<"image", "1", ".png">>) \notin DOMAIN files

\* C7: when the write of the collection faults during insert, update or
\* delete, the caller gets a failure and every later read returns the
\* collection as it was before the failed operation.
C7_WriteFaultDiscards ==
    [][res'.status = 500 =>
       \A io \in {"writeFault", "writeTorn"} :
          (\/ \E file \in Files, body \in PostBodies, random \in RandomTokens :
                  PostProducts(file, body, random, io)
           \/ \E key \in Keys, file \in Files, body \in PutBodies : PutProducts(key, file, body, io)
           \/ \E key \in Keys : DeleteProduct(key, io))
          => /\ GetProductsReply("ok")' = GetProductsReply("ok")
             /\ \A key \in Keys : GetProductReply(key, "ok")' = GetProductReply(key, "ok")]_vars

\* C8: a read or parse fault of products.json reads as the empty store:
\* GET /api/products answers 200 with [], GET of any key answers 404, and
\* no read answers with a server error.
C8_ReadFaultIsEmptyStore ==
    [][/\ \A io \in ReadIOs :
            (GetProducts(io) /\ (io = "readFault" \/ ~productsFile.valid))
            => res' = Reply("GET_ALL", 200, Arr(<<>>))
       /\ \A key \in Keys, io \in ReadIOs :
            (GetProduct(key, io) /\ (io = "readFault" \/ ~productsFile.valid))
            => res' = Reply("GET", 404, Error("Product not found"))
       /\ \A key \in Keys, io \in ReadIOs :
            (GetProducts(io) \/ GetProduct(key, io)) => res'.status \in {200, 404}]_vars

\* The list came back empty from a store that holds records.
C8_Witness ==
    /\ res = Reply("GET_ALL", 200, Arr(<<>>))
    /\ productsFile.valid
    /\ Len(productsFile.data) > 0

\* C9: an update, whatever its body supplies (trackingNumber and createdAt
\* included), on whatever medium, leaves the trackingNumber and createdAt
\* of every record it persists as they were, and answers with the same key.
C9_IdentityKept ==
    [][res'.op = "PUT" =>
       \A key \in Keys, body \in PutBodies, io \in IOs :
          (PutProducts(key, NoFile, body, io) /\ productsFile'.valid)
          => /\ Len(Persisted') = Len(Persisted)
             /\ \A i \in 1..Len(Persisted) :
                  /\ Persisted'[i].trackingNumber = Persisted[i].trackingNumber
                  /\ Persisted'[i].createdAt = Persisted[i].createdAt
             /\ res'.status = 200 => /\ res'.body.v.trackingNumber = key
                                     /\ res'.body.v.createdAt = RecordOf(Persisted, key).createdAt]_vars

\* An update naming another key and another creation time has succeeded on
\* the record created at time 0, at time 1, beside the record of that other
\* key, created at time 1.
C9_Witness ==
    /\ res.op = "PUT" /\ res.status = 200
    /\ res.body.v.trackingNumber = TN1
    /\ clock = 1
    /\ Len(Persisted) = 2
    /\ Persisted[1].createdAt = ISOString(0)
    /\ Persisted[2].createdAt = ISOString(1)

\* The reference names a file under the managed asset directory.
UnderUploads(packageImage) ==
    LET path == PathJoin(packageImage.v)
    IN  Len(path) = 2 /\ path[1] = <<"uploads">>

\* C10: deleting a record whose packageImage does not refer to a file under
\* the managed asset directory changes no file, and a delete never ends in
\* a server error for a missing file.
C10_DeleteTouchesManagedOnly ==
    [][res'.op = "DELETE" =>
       \A key \in Keys :
          (HasKey(Persisted, key) /\ DeleteProduct(key, "ok"))
          => /\ ~UnderUploads(RecordOf(Persisted, key).packageImage) => files' = files
             /\ res'.status = 200]_vars

\* The name storage.filename derives from a record count and an extension.
ArrivalName(count, extension) == <<"image">> \o NumberToString(count + 1) \o extension

\* The names under /uploads/ that the persisted records refer to.
Referenced == {Persisted[i].packageImage : i \in 1..Len(Persisted)}

\* C11: with no other upload in flight, the name image<N><ext> given to a
\* new upload, N the record count at that moment plus one, is the name of
\* no asset a stored record still refers to.
C11_FreshName ==
    [][(inflight = EmptyBag /\ inflight' # EmptyBag) =>
       \A m \in MimeTypes, o \in OriginalNames, c \in Contents :
          Multer(m, o, c, "ok")
          => /\ BagIn(ArrivalName(Len(Persisted), ExtName(o)), inflight')
             /\ Str(UploadsPrefix \o ArrivalName(Len(Persisted), ExtName(o))) \notin Referenced]_vars

\* --- the naming race: uploads of differing content on a healthy medium
RaceContents == {"blobA", "blobB"}

NextRace ==
    \/ \E m \in MimeTypes, o \in OriginalNames, c \in RaceContents : Multer(m, o, c, "ok")
    \/ \E file \in Files, body \in PostBodies, random \in RandomTokens :
           PostProducts(file, body, random, "ok")
    \/ \E key \in Keys, file \in Files, body \in PutBodies : PutProducts(key, file, body, "ok")

SpecRace == Init /\ [][NextRace]_vars

\* C12: an upload accepted while another is in flight whose name was
\* derived from the record count that still stands is given that same
\* name; its content replaces the earlier upload's file, and both requests
\* go on to their handlers with the one name.
C12_NamingRace ==
    [][inflight' # inflight =>
       \A m \in MimeTypes, o \in OriginalNames, c \in RaceContents :
          (/\ Multer(m, o, c, "ok")
           /\ BagIn(ArrivalName(Len(Persisted), ExtName(o)), inflight))
          => /\ CopiesIn(ArrivalName(Len(Persisted), ExtName(o)), inflight') >= 2
             /\ files'[UploadPath(ArrivalName(Len(Persisted), ExtName(o)))] = c
             /\ DOMAIN files' = DOMAIN files]_vars

\* Two committed records refer to image1, of which the file holds the
\* content of one upload only, the other having been written over.
C12_Witness ==
    /\ Len(Persisted) = 2
    /\ Persisted[1].packageImage = Persisted[2].packageImage
    /\ Persisted[1].packageImage = Image("1")
    /\ files[UploadPath(<<"image", "1", ".png">>)] = "blobB"
    /\ UploadPath(<<"image", "2", ".png">>) \notin DOMAIN files
    /\ inflight = EmptyBag

\* --- the order of the collection: three keys, requests without uploads on a
\* healthy medium
TN3 == Str(<<"TN3">>)
OrderKeys == {TN1, TN2, TN3}
OrderBodies == PostBodies \cup {With(FullBody, "trackingNumber", TN3)}

NextOrder ==
    \/ GetProducts("ok")
    \/ \E body \in OrderBodies, random \in RandomTokens : PostProducts(NoFile, body, random, "ok")
    \/ \E key \in OrderKeys, body \in PutBodies : PutProducts(key, NoFile, body, "ok")
    \/ \E key \in OrderKeys : DeleteProduct(key, "ok")

SpecOrder == Init /\ [][NextOrder]_vars

\* The keys of a collection, in its order.
KeysOf(products) == [i \in 1..Len(products) |-> products[i].trackingNumber]

\* C13: GET /api/products answers with the persisted records in their
\* order; a successful insert puts its record after the records there
\* were, a successful update leaves the sequence of keys as it was, and a
\* successful delete removes the one key and keeps the order of the rest.
C13_InsertionOrder ==
    [][/\ (res'.op = "GET_ALL" /\ GetProducts("ok")) => res'.body.v = Persisted
       /\ (res'.op = "POST" /\ res'.status = 201)
          => \A body \in OrderBodies, random \in RandomTokens :
                PostProducts(NoFile, body, random, "ok")
                => /\ SubSeq(Persisted', 1, Len(Persisted)) = Persisted
                   /\ KeysOf(Persisted') =
                        Append(KeysOf(Persisted), Or(Field(body, "trackingNumber"), Str(random)))
       /\ (res'.op = "PUT" /\ res'.status = 200)
          => \A key \in OrderKeys, body \in PutBodies :
                PutProducts(key, NoFile, body, "ok") => KeysOf(Persisted') = KeysOf(Persisted)
       /\ (res'.op = "DELETE" /\ res'.status = 200)
          => \A key \in OrderKeys :
                DeleteProduct(key, "ok")
                => /\ Len(Persisted') = Len(Persisted) - 1
                   /\ KeysOf(Persisted') = SelectSeq(KeysOf(Persisted), LAMBDA k : k # key)]_vars

\* Of three records inserted TN3, generated, TN1, the middle one has been
\* deleted.
C13_Witness ==
    /\ res.op = "DELETE" /\ res.status = 200
    /\ KeysOf(Persisted) = <<TN3, TN1>>

\* C14: a read (GET /api/products or GET of a key) changes neither
\* products.json nor any file; GET /api/products answers with the sequence
\* readProducts yields, and asked again, the medium in the same condition,
\* answers with the identical sequence.
C14_IdempotentReads ==
    [][res'.op \in {"GET_ALL", "GET"} =>
       /\ \A io \in ReadIOs :
            GetProducts(io)
            => /\ res' = Reply("GET_ALL", 200, Arr(Seen(io)))
               /\ productsFile' = productsFile /\ files' = files
               /\ GetProductsReply(io)' = res'
       /\ \A key \in Keys, io \in ReadIOs :
            GetProduct(key, io)
            => /\ productsFile' = productsFile /\ files' = files
               /\ \A again \in ReadIOs : GetProductsReply(again)' = GetProductsReply(again)]_vars

\* The list of two records has been returned.
C14_Witness ==
    /\ res.op = "GET_ALL" /\ res.status = 200
    /\ Len(res.body.v) = 2
    /\ res.body.v = Persisted

\* A record as POST seeds it: one event "Package created", isGlobal false,
\* a creation time and a non-empty key.
Seeded(p) ==
    /\ p.events.t = "array" /\ Len(p.events.v) = 1
    /\ p.events.v[1].description = Str(<<"Package created">>)
    /\ p.isGlobal = False
    /\ p.createdAt.t = "string" /\ p.createdAt.v # <<>>
    /\ p.trackingNumber.t = "string" /\ p.trackingNumber.v # <<>>

C16_MediaTypeRejected ==
    [][(res'.op = "UPLOAD" \/ files' # files \/ inflight' # inflight) =>
       \A m \in MimeTypes, o \in OriginalNames, c \in RaceContents :
          (~StartsWith(m, <<"image/">>) /\ Multer(m, o, c, "ok"))
          => /\ res' = Reply("UPLOAD", 500, Error("Only image files are allowed!"))
             /\ files' = files
             /\ inflight' = inflight
             /\ productsFile' = productsFile]_vars

\* A text upload has been rejected while a record is stored and an
\* accepted upload is in flight.
C16_Witness ==
    /\ res.op = "UPLOAD" /\ res.status = 500
    /\ Len(Persisted) = 1
    /\ inflight # EmptyBag

\* C17: GET of a key answers 404 exactly when no record of the collection
\* it reads has the key, and otherwise with that record; PUT and DELETE of
\* a key no record has answer 404, write nothing to products.json and
\* remove no file, whatever the medium would do to a write.
C17_NotFound ==
    [][/\ res'.op = "GET"
          => \A key \in Keys, io \in ReadIOs :
                GetProduct(key, io)
                => /\ res'.status = 404 <=> ~HasKey(Seen(io), key)
                   /\ res'.status = 404 => res'.body = Error("Product not found")
                   /\ res'.status # 404 => res'.body.v = RecordOf(Seen(io), key)
       /\ res'.op = "PUT"
          => \A key \in Keys, body \in PutBodies, io \in IOs :
                (~HasKey(Seen(io), key) /\ PutProducts(key, NoFile, body, io))
                => /\ res' = Reply("PUT", 404, Error("Product not found"))
                   /\ productsFile' = productsFile /\ files' = files
       /\ res'.op = "DELETE"
          => \A key \in Keys, io \in IOs :
                (~HasKey(Seen(io), key) /\ DeleteProduct(key, io))
                => /\ res' = Reply("DELETE", 404, Error("Product not found"))
                   /\ productsFile' = productsFile /\ files' = files]_vars

\* A delete of a key no record has was answered 404 beside a stored record.
C17_Witness ==
    /\ res = Reply("DELETE", 404, Error("Product not found"))
    /\ Len(Persisted) = 1
    /\ clock = 1

\* C18: a record leaves the persisted collection only by a delete of its
\* key that reports success; inserts, updates and reads of any key, under
\* read faults and write faults, keep it.
C18_RemovedOnlyByDelete ==
    [][\A key \in Keys :
          (HasKey(Persisted, key) /\ ~HasKey(Persisted', key))
          => /\ res' = Reply("DELETE", 200, Message("Product deleted successfully"))
             /\ \E io \in IOs : DeleteProduct(key, io)]_vars

\* C19: every persisted record whose packageImage was assigned from an
\* upload refers to a file that exists.
C19_UploadsExist ==
    \A i \in 1..Len(Persisted) :
        StartsWith(Persisted[i].packageImage.v, UploadsPrefix)
        => PathJoin(Persisted[i].packageImage.v) \in DOMAIN files

\* C20: with no request between upload.single and its handler, every file
\* under uploads/ is the one some persisted record's packageImage refers to.
C20_NoOrphans ==
    inflight = EmptyBag
    => \A path \in DOMAIN files :
          (Len(path) = 2 /\ path[1] = <<"uploads">>)
          => \E i \in 1..Len(Persisted) : StartsWith(Persisted[i].packageImage.v, UploadsPrefix)
                                          /\ PathJoin(Persisted[i].packageImage.v) = path
====
